---- MODULE Spec2Model ----
(***************************************************************************)
(* Inventory ledger of the order/inventory back office.                    *)
(*                                                                         *)
(* The state is the relational store (products/product_variants,           *)
(* inventory_locations, inventory_items, inventory_adjustments) together   *)
(* with the position of every concurrent client: the callers of            *)
(* ProductsService.adjustInventory and the product-sync edge function.     *)
(* Every `await supabase...` of the source is one database statement and   *)
(* therefore one atomic step of the model; other clients may run between   *)
(* two such steps.                                                         *)
(*                                                                         *)
(* Database statements obey the constraints of the schema migration:       *)
(* foreign keys with ON DELETE CASCADE, CHECK (... >= 0) on the five       *)
(* quantity columns and UNIQUE(variant_id, location_id).  A statement      *)
(* that violates a constraint changes nothing and returns an error         *)
(* object; the client code that does not look at that error carries on.    *)
(***************************************************************************)
EXTENDS Integers, FiniteSets, Sequences, TLC

\* ---------------------------------------------------------------- bounds
MaxQty == 1          \* largest stock quantity explored
MaxLedger == 2       \* adjustInventory calls that get past the stock check
MaxClock == 2        \* largest value of the database clock explored

Callers == {"c1", "c2"}   \* concurrent callers of adjustInventory
Products == {1}           \* products, one variant each
\* status text DEFAULT 'active' CHECK (status IN ('active','archived','draft'))
Statuses == {"active", "archived", "draft"}
Locations == {1, 2}       \* rows of inventory_locations
\* quantity_change values passed by callers: one unit down, none, one unit up
Deltas == {0 - 1, 0, 1}
\* Sum of the platform's inventory levels; the platform reports oversold
\* stock as a negative quantity.
PlatformQtys == (0 - 1)..MaxQty

NoId == <<0, 0, 0>>

\* reorder_point integer DEFAULT 10
ReorderPoint == 10

VARIABLES
  products,               \* product id -> its status | "deleted"
  inventory_locations,    \* location id -> [present, is_active, is_default]
  inventory_items,        \* set of Quantity Record rows
  inventory_adjustments,  \* set of ledger rows; id is the insertion order
  nextAdjId,              \* next ledger row id
  call,                   \* caller -> position inside adjustInventory
  sync,                   \* position of the product-sync handler
  now,                    \* the database clock, the value of now()
  reply,                  \* what the last read of the service returned
  tracking_partners,      \* partner id -> [present, is_default]
  request,                \* client -> position inside the partners handler
  ui,                     \* caller -> position inside its UI handler
  items0                  \* the Quantity Records of the initial state

\* The state outside the ledger tables and their writers.
aux == <<now, reply, tracking_partners, request, ui, items0>>

vars == <<products, inventory_locations, inventory_items,
          inventory_adjustments, nextAdjId, call, sync, now, reply,
          tracking_partners, request, ui, items0>>

\* ------------------------------------------------------------ the schema

\* product_variants: every product of the model has exactly one variant,
\* which carries the product's id; it exists exactly while its product does
\* (product_id ... ON DELETE CASCADE).
product_variants == {p \in Products : products[p] \in Statuses}

PresentLocations == {l \in Locations : inventory_locations[l].present}

\* REFERENCES product_variants(id) / inventory_locations(id)
FKOk(v, l) == v \in product_variants /\ l \in PresentLocations

\* The table without its CHECK constraints.
CheckOk_NoCheck(r) == TRUE

\* CHECK (available >= 0) ... CHECK (reserved >= 0)
CheckOk(r) ==
  /\ r.available >= 0
  /\ r.committed >= 0
  /\ r.damaged >= 0
  /\ r.in_transit >= 0
  /\ r.reserved >= 0

\* The rows of a variant, whatever their location.
RowsOf_AnyLocation(items, v, l) == {r \in items : r.variant_id = v}

\* .eq('variant_id', v).eq('location_id', l)
RowsOf(items, v, l) ==
  {r \in items : r.variant_id = v /\ r.location_id = l}

\* The table without its UNIQUE constraint.
UniqueOk_NoConstraint(items, v, l) == TRUE

\* UNIQUE(variant_id, location_id)
UniqueOk(items, v, l) == RowsOf(items, v, l) = {}

\* id uuid PRIMARY KEY DEFAULT gen_random_uuid(): a value no row has.
FreshItemId(items, v, l) == <<v, l, Cardinality(RowsOf(items, v, l)) + 1>>

\* A new row with the column defaults of the table.
NewItem(items, v, l, qty) ==
  [id |-> FreshItemId(items, v, l), variant_id |-> v, location_id |-> l,
   available |-> qty, committed |-> 0, damaged |-> 0, in_transit |-> 0,
   reserved |-> 0, reorder_point |-> ReorderPoint]

\* INSERT INTO inventory_items: all constraints or nothing.
InsertItem(items, v, l, qty) ==
  LET r == NewItem(items, v, l, qty)
  IN IF FKOk(v, l) /\ CheckOk(r) /\ UniqueOk(items, v, l)
       THEN items \cup {r}
       ELSE items

\* An update that adds the platform's quantity to the record instead of
\* replacing it.
UpdateItemById_Increment(items, rid, qty) ==
  LET new == {IF r.id = rid THEN [r EXCEPT !.available = @ + qty] ELSE r :
                r \in items}
  IN IF \A r \in new : CheckOk(r) THEN new ELSE items

\* UPDATE inventory_items SET available = qty WHERE id = rid
UpdateItemById(items, rid, qty) ==
  LET new == {IF r.id = rid THEN [r EXCEPT !.available = qty] ELSE r :
                r \in items}
  IN IF \A r \in new : CheckOk(r) THEN new ELSE items

\* An update in place of the upsert: it never creates the row.
UpsertItemByPk_UpdateOnly(items, v, l, qty) ==
  {IF r.variant_id = v /\ r.location_id = l
     THEN [r EXCEPT !.available = qty] ELSE r : r \in items}

\* .upsert(row) with no onConflict option: the conflict target is the primary
\* key.  The row carries no id, so it gets a fresh one, never conflicts on the
\* primary key, and the statement is a plain INSERT.
UpsertItemByPk(items, v, l, qty) == InsertItem(items, v, l, qty)

\* .upsert(row, { onConflict: 'variant_id,location_id' }):
\* INSERT ... ON CONFLICT (variant_id, location_id) DO UPDATE SET available
UpsertItemByKey(items, v, l, qty) ==
  IF RowsOf(items, v, l) = {}
    THEN InsertItem(items, v, l, qty)
    ELSE LET new == {IF r.variant_id = v /\ r.location_id = l
                       THEN [r EXCEPT !.available = qty] ELSE r : r \in items}
         IN IF \A r \in new : CheckOk(r) THEN new ELSE items

AdjustmentTypes ==
  {"received", "sold", "damaged", "returned", "transfer", "correction",
   "adjustment"}

\* INSERT INTO inventory_adjustments
InsertAdjustment(adjs, row) ==
  IF FKOk(row.variant_id, row.location_id)
       /\ row.adjustment_type \in AdjustmentTypes
    THEN adjs \cup {row}
    ELSE adjs

\* DELETE FROM products WHERE id = p, with the cascades of the schema.
CascadeVariant(rows, v) == {r \in rows : r.variant_id # v}
CascadeLocation(rows, l) == {r \in rows : r.location_id # l}

\* ------------------------------------------------------------------ Init

IdleCall ==
  [pc |-> "idle", variant_id |-> 0, location_id |-> 0, quantity_change |-> 0,
   found |-> FALSE, quantityBefore |-> 0, quantityAfter |-> 0]

IdleSync ==
  [pc |-> "idle", fn |-> "none", variant_id |-> 0, location_id |-> 0,
   inventoryQuantity |-> 0, existingInv |-> NoId]

\* No read has returned yet.
NoReply == [fn |-> "none", variant_id |-> 0, limit |-> 0, rows |-> <<>>]

Partners == {1, 2, 3}     \* rows of tracking_partners

\* INSERT INTO tracking_partners ... VALUES ('Delhivery', ..., true, true, 1),
\* ('Blue Dart', ..., true, false, 2), ...: the first seed row is the default.
SeedPartners ==
  [t \in Partners |-> [present |-> TRUE, is_default |-> (t = 1)]]

IdleRequest == [pc |-> "idle", id |-> 0]

IdleUi ==
  [pc |-> "idle", handler |-> "none", variant_id |-> 0, location_id |-> 0,
   quantity_change |-> 0, loading |-> FALSE, alert |-> FALSE,
   unhandled |-> FALSE]

\* The migration leaves the store empty except for the bootstrap location
\* 'Main Warehouse' (default, active).  A second location has been added by
\* an administrator and the products have been entered with
\* ProductsService.createProduct (status 'active' unless given), which
\* writes no Quantity Record.  The clock starts at 0, nothing has been read,
\* the partners table holds its seed rows and no handler is running.
Init ==
  /\ products = [p \in Products |-> "active"]
  /\ inventory_locations =
       [l \in Locations |->
          [present |-> TRUE, is_active |-> TRUE, is_default |-> (l = 1)]]
  /\ inventory_items = {}
  /\ inventory_adjustments = {}
  /\ nextAdjId = 1
  /\ call = [c \in Callers |-> IdleCall]
  /\ sync = IdleSync
  /\ now = 0
  /\ reply = NoReply
  /\ tracking_partners = SeedPartners
  /\ request = [c \in Callers |-> IdleRequest]
  /\ ui = [c \in Callers |-> IdleUi]
  /\ items0 = {}

\* --------------------------------------------- ProductsService.adjustInventory

\* The stock check off by one.
Insufficient_OffByOne(quantityAfter) == quantityAfter + 1 < 0

\* if (quantityAfter < 0) throw new Error('Insufficient inventory')
Insufficient(quantityAfter) == quantityAfter < 0

\* const { data: current } = await ...select('available')...maybeSingle():
\* the row when exactly one matches, otherwise no data.
CurrentItem(items, v, l) ==
  IF Cardinality(RowsOf(items, v, l)) = 1 THEN RowsOf(items, v, l) ELSE {}

\* current?.available || 0
QuantityBefore(items, v, l) ==
  IF CurrentItem(items, v, l) = {}
    THEN 0
    ELSE (CHOOSE r \in CurrentItem(items, v, l) : TRUE).available

InFlight(c) == call[c].pc \in {"upsert", "insert"}

\* The call starts: the select runs, the stock check throws or lets the call
\* continue.  The ids a caller passes are ids it has seen; the variant or the
\* location may have been deleted since.
AdjRead(c, v, l, d) ==
  /\ ~InFlight(c)
  /\ (nextAdjId - 1) + Cardinality({x \in Callers : InFlight(x)}) < MaxLedger
  /\ LET before == QuantityBefore(inventory_items, v, l)
         after == before + d
     IN /\ after <= MaxQty
        /\ call' = [call EXCEPT ![c] =
             [pc |-> IF Insufficient(after) THEN "rejected" ELSE "upsert",
              variant_id |-> v, location_id |-> l, quantity_change |-> d,
              found |-> CurrentItem(inventory_items, v, l) # {},
              quantityBefore |-> before, quantityAfter |-> after]]
  /\ UNCHANGED <<products, inventory_locations, inventory_items,
                 inventory_adjustments, nextAdjId, sync>>
  /\ UNCHANGED aux

\* An upsert that replaces the pair's row by a new row built from the
\* payload, the columns the payload does not name back at their defaults.
AdjUpsert_ReplaceRow(c) ==
  /\ call[c].pc = "upsert"
  /\ inventory_items' =
       (inventory_items
          \ RowsOf(inventory_items, call[c].variant_id, call[c].location_id))
       \cup {NewItem({}, call[c].variant_id, call[c].location_id,
                     call[c].quantityAfter)}
  /\ call' = [call EXCEPT ![c].pc = "insert"]
  /\ UNCHANGED <<products, inventory_locations, inventory_adjustments,
                 nextAdjId, sync>>
  /\ UNCHANGED aux

\* await supabase.from('inventory_items').upsert({...}); error not inspected.
AdjUpsert(c) ==
  /\ call[c].pc = "upsert"
  /\ inventory_items' = UpsertItemByPk(inventory_items, call[c].variant_id,
                          call[c].location_id, call[c].quantityAfter)
  /\ call' = [call EXCEPT ![c].pc = "insert"]
  /\ UNCHANGED <<products, inventory_locations, inventory_adjustments,
                 nextAdjId, sync>>
  /\ UNCHANGED aux

AdjustmentRow(c, id) ==
  [id |-> id, variant_id |-> call[c].variant_id,
   location_id |-> call[c].location_id, adjustment_type |-> "adjustment",
   quantity_change |-> call[c].quantity_change,
   quantity_before |-> call[c].quantityBefore,
   quantity_after |-> call[c].quantityAfter, created_at |-> now]

\* await supabase.from('inventory_adjustments').insert({...}); error not
\* inspected; the promise resolves and the caller sees success.
AdjInsert(c) ==
  /\ call[c].pc = "insert"
  /\ inventory_adjustments' =
       InsertAdjustment(inventory_adjustments, AdjustmentRow(c, nextAdjId))
  /\ nextAdjId' = nextAdjId + 1
  /\ call' = [call EXCEPT ![c].pc = "ok"]
  /\ UNCHANGED <<products, inventory_locations, inventory_items, sync>>
  /\ UNCHANGED aux

\* ------------------------------------------------------------ deletions

\* ProductsService.deleteProduct: DELETE FROM products WHERE id = p; the
\* variant, its Quantity Records and its ledger rows go with it.
deleteProduct(p) ==
  /\ products[p] \in Statuses
  /\ products' = [products EXCEPT ![p] = "deleted"]
  /\ inventory_items' = CascadeVariant(inventory_items, p)
  /\ inventory_adjustments' = CascadeVariant(inventory_adjustments, p)
  /\ UNCHANGED <<inventory_locations, nextAdjId, call, sync>>
  /\ UNCHANGED aux

\* DELETE FROM inventory_locations WHERE id = l (policy "Authenticated users
\* can manage locations" is FOR ALL), with the cascades of the schema.
deleteLocation(l) ==
  /\ inventory_locations[l].present
  /\ inventory_locations' =
       [inventory_locations EXCEPT ![l] =
          [present |-> FALSE, is_active |-> FALSE, is_default |-> FALSE]]
  /\ inventory_items' = CascadeLocation(inventory_items, l)
  /\ inventory_adjustments' = CascadeLocation(inventory_adjustments, l)
  /\ UNCHANGED <<products, nextAdjId, call, sync>>
  /\ UNCHANGED aux

\* ---------------------------------------------------------- product sync

\* .from('inventory_locations').select('id').eq('is_default', true)
\* .maybeSingle(): the location when exactly one is the default.
DefaultLocation(locs) ==
  LET ds == {l \in Locations : locs[l].present /\ locs[l].is_default}
  IN IF Cardinality(ds) = 1 THEN CHOOSE l \in ds : TRUE ELSE 0

\* One iteration of `for (const variant of product.variants)` up to the
\* select of the default location: the product and its variant, which the
\* store already holds, are updated (a product deleted here is no longer
\* listed by the platform in this model), the platform's quantity is
\* fetched, the default location is read.  The statements before the select touch only products and
\* product_variants, so they are taken together with it.
\* fn = "sync" is shopify-products-sync (select, then update or insert);
\* fn = "upsert" is the handler that upserts on (variant_id, location_id).
SyncVariant(fn, p, qty) ==
  /\ sync.pc = "idle"
  /\ products[p] \in Statuses
  /\ UNCHANGED products
  /\ LET dl == DefaultLocation(inventory_locations)
     IN sync' =
          IF dl = 0
            THEN IdleSync
            ELSE [pc |-> IF fn = "sync" THEN "selectExisting" ELSE "upsert",
                  fn |-> fn, variant_id |-> p, location_id |-> dl,
                  inventoryQuantity |-> qty, existingInv |-> NoId]
  /\ UNCHANGED <<inventory_locations, inventory_items, inventory_adjustments,
                 nextAdjId, call>>
  /\ UNCHANGED aux

\* const { data: existingInv } = await ...select('id')...maybeSingle()
SyncSelectExisting ==
  /\ sync.pc = "selectExisting"
  /\ LET cur == CurrentItem(inventory_items, sync.variant_id,
                            sync.location_id)
     IN sync' = [sync EXCEPT
          !.pc = "write",
          !.existingInv = IF cur = {} THEN NoId
                          ELSE (CHOOSE r \in cur : TRUE).id]
  /\ UNCHANGED <<products, inventory_locations, inventory_items,
                 inventory_adjustments, nextAdjId, call>>
  /\ UNCHANGED aux

\* if (existingInv) update available by id, else insert a full row.
SyncWrite ==
  /\ sync.pc = "write"
  /\ inventory_items' =
       IF sync.existingInv # NoId
         THEN UpdateItemById(inventory_items, sync.existingInv,
                             sync.inventoryQuantity)
         ELSE InsertItem(inventory_items, sync.variant_id, sync.location_id,
                         sync.inventoryQuantity)
  /\ sync' = IdleSync
  /\ UNCHANGED <<products, inventory_locations, inventory_adjustments,
                 nextAdjId, call>>
  /\ UNCHANGED aux

\* .upsert({variant_id, location_id, available: variant.inventory_quantity
\* || 0}, { onConflict: 'variant_id,location_id' })
SyncUpsert ==
  /\ sync.pc = "upsert"
  /\ inventory_items' =
       UpsertItemByKey(inventory_items, sync.variant_id, sync.location_id,
                       sync.inventoryQuantity)
  /\ sync' = IdleSync
  /\ UNCHANGED <<products, inventory_locations, inventory_adjustments,
                 nextAdjId, call>>
  /\ UNCHANGED aux

\* ------------------------------------------------------------------ Next

Next ==
  \/ \E c \in Callers, v \in Products, l \in Locations, d \in Deltas :
       AdjRead(c, v, l, d)
  \/ \E c \in Callers : AdjUpsert(c)
  \/ \E c \in Callers : AdjInsert(c)
  \/ \E p \in Products : deleteProduct(p)
  \/ \E l \in Locations : deleteLocation(l)
  \/ \E fn \in {"sync", "upsert"}, p \in Products, qty \in PlatformQtys :
       SyncVariant(fn, p, qty)
  \/ SyncSelectExisting
  \/ SyncWrite
  \/ SyncUpsert

Spec == Init /\ [][Next]_vars

\* ------------------------------------------------- reading the ledger

Min(a, b) == IF a < b THEN a ELSE b

\* limit values passed to getInventoryAdjustments
Limits == {1, 2}

\* created_at timestamptz DEFAULT now(): the clock moves on between two
\* statements, or it does not (two inserts may get the same timestamp).
Tick ==
  /\ now < MaxClock
  /\ now' = now + 1
  /\ UNCHANGED <<products, inventory_locations, inventory_items,
                 inventory_adjustments, nextAdjId, call, sync, reply,
                 tracking_partners, request, ui, items0>>

\* ORDER BY created_at DESC LIMIT limit over the rows of `rows`: every
\* sequence the database may return.  Rows with equal created_at come in
\* any order, and when they straddle the limit any of them may be cut.
NewestFirst(rows, limit) ==
  LET n == Min(limit, Cardinality(rows))
  IN {q \in [1..n -> rows] :
        /\ \A i, j \in 1..n : i < j =>
             /\ q[i] # q[j]
             /\ q[i].created_at >= q[j].created_at
        /\ \A r \in rows :
             (\A i \in 1..n : q[i] # r) =>
               \A i \in 1..n : q[i].created_at >= r.created_at}

\* ProductsService.getInventoryAdjustments(variantId, limit):
\* .eq('variant_id', variantId).order('created_at', {ascending: false})
\* .limit(limit)
getInventoryAdjustments(v, limit) ==
  /\ \E q \in NewestFirst({e \in inventory_adjustments : e.variant_id = v},
                          limit) :
       reply' = [fn |-> "getInventoryAdjustments", variant_id |-> v,
                 limit |-> limit, rows |-> q]
  /\ UNCHANGED <<products, inventory_locations, inventory_items,
                 inventory_adjustments, nextAdjId, call, sync, now,
                 tracking_partners, request, ui, items0>>

NextHistory ==
  \/ \E c \in Callers, v \in Products, l \in Locations, d \in Deltas :
       AdjRead(c, v, l, d)
  \/ \E c \in Callers : AdjUpsert(c)
  \/ \E c \in Callers : AdjInsert(c)
  \/ Tick
  \/ \E v \in Products, limit \in Limits : getInventoryAdjustments(v, limit)

SpecHistory == Init /\ [][NextHistory]_vars

\* ------------------------------------- calls on distinct (variant, location)

\* The pair each caller adjusts: the callers work on different pairs.
KeyOf(c) == IF c = "c1" THEN <<1, 1>> ELSE <<1, 2>>

\* A store in which each pair has no Quantity Record or one with any stock
\* level (left by earlier syncs and adjustments); no call is running.
InitDistinctKeys ==
  /\ products = [p \in Products |-> "active"]
  /\ inventory_locations =
       [l \in Locations |->
          [present |-> TRUE, is_active |-> TRUE, is_default |-> (l = 1)]]
  /\ \E have \in SUBSET (Products \X Locations) :
       \E q \in [have -> 0..MaxQty] :
         inventory_items = {NewItem({}, k[1], k[2], q[k]) : k \in have}
  /\ items0 = inventory_items
  /\ inventory_adjustments = {}
  /\ nextAdjId = 1
  /\ call = [c \in Callers |-> IdleCall]
  /\ sync = IdleSync
  /\ now = 0
  /\ reply = NoReply
  /\ tracking_partners = SeedPartners
  /\ request = [c \in Callers |-> IdleRequest]
  /\ ui = [c \in Callers |-> IdleUi]

\* Caller c makes its one call, on its own pair.
AdjReadOwnKey(c, d) ==
  /\ call[c].pc = "idle"
  /\ AdjRead(c, KeyOf(c)[1], KeyOf(c)[2], d)

NextDistinctKeys ==
  \/ \E c \in Callers, d \in Deltas : AdjReadOwnKey(c, d)
  \/ \E c \in Callers : AdjUpsert(c)
  \/ \E c \in Callers : AdjInsert(c)

SpecDistinctKeys == InitDistinctKeys /\ [][NextDistinctKeys]_vars

\* ------------------------------------------------- product sync alone

\* Stores the sync may find: any records, any choice of default locations.
InitSync ==
  /\ products = [p \in Products |-> "active"]
  /\ \E def \in [Locations -> BOOLEAN] :
       inventory_locations =
         [l \in Locations |->
            [present |-> TRUE, is_active |-> TRUE, is_default |-> def[l]]]
  /\ \E have \in SUBSET (Products \X Locations) :
       \E q \in [have -> 0..MaxQty] :
         inventory_items = {NewItem({}, k[1], k[2], q[k]) : k \in have}
  /\ items0 = inventory_items
  /\ inventory_adjustments = {}
  /\ nextAdjId = 1
  /\ call = [c \in Callers |-> IdleCall]
  /\ sync = IdleSync
  /\ now = 0
  /\ reply = NoReply
  /\ tracking_partners = SeedPartners
  /\ request = [c \in Callers |-> IdleRequest]
  /\ ui = [c \in Callers |-> IdleUi]

\* The inventory statements of one iteration of the variant loop, run to
\* their end on the records `items`: what SyncVariant, SyncSelectExisting
\* and SyncWrite (fn = "sync"), or SyncVariant and SyncUpsert
\* (fn = "upsert"), do when nothing runs in between.
SyncRun(fn, items, p, qty) ==
  LET dl == DefaultLocation(inventory_locations)
      cur == CurrentItem(items, p, dl)
  IN IF dl = 0 THEN items
     ELSE IF fn = "upsert" THEN UpsertItemByKey(items, p, dl, qty)
     ELSE IF cur # {}
       THEN UpdateItemById(items, (CHOOSE r \in cur : TRUE).id, qty)
       ELSE InsertItem(items, p, dl, qty)

NextSync ==
  \/ \E fn \in {"sync", "upsert"}, p \in Products, qty \in PlatformQtys :
       SyncVariant(fn, p, qty)
  \/ SyncSelectExisting
  \/ SyncWrite
  \/ SyncUpsert

SpecSync == InitSync /\ [][NextSync]_vars

\* ----------------------------------- calls on the same (variant, location)

\* Caller c makes its one call, on the pair every caller adjusts.
AdjReadSameKey(c, d) ==
  /\ call[c].pc = "idle"
  /\ AdjRead(c, 1, 1, d)

NextSameKey ==
  \/ \E c \in Callers, d \in Deltas : AdjReadSameKey(c, d)
  \/ \E c \in Callers : AdjUpsert(c)
  \/ \E c \in Callers : AdjInsert(c)

SpecSameKey == InitDistinctKeys /\ [][NextSameKey]_vars

\* adjustInventory(v, l, {quantity_change: d}) run alone, from start to end,
\* on the store `items`: the Quantity Records it leaves.
AdjustedAlone(items, v, l, d) ==
  LET after == QuantityBefore(items, v, l) + d
  IN IF Insufficient(after) THEN items
     ELSE UpsertItemByPk(items, v, l, after)

\* ... and the ledger rows it appends, without their id and timestamp.
AppendedAlone(items, v, l, d) ==
  LET before == QuantityBefore(items, v, l)
  IN IF Insufficient(before + d) THEN {}
     ELSE {[variant_id |-> v, location_id |-> l, quantity_change |-> d,
            quantity_before |-> before, quantity_after |-> before + d]}

\* ------------------------------------------------ the UI entry points

\* The handlers of the inventory screens that call adjustInventory: the
\* stock field of the product table, the quick +/- buttons, the inline
\* stock edit, the adjustment dialog and the adjustment modal.
Handlers ==
  {"handleStockChange", "handleQuickAdjust", "handleSaveStock",
   "handleAdjustment", "handleSubmit"}

\* const change = newStock - ...; if (change === 0) return
SkipsZero(h) == h \in {"handleStockChange", "handleSaveStock"}

\* The changes a handler's call sites pass: the quick buttons call
\* handleQuickAdjust(product, 1) and handleQuickAdjust(product, -1); the
\* other handlers compute the change from what the user typed.
CallSiteChanges(h) ==
  IF h = "handleQuickAdjust" THEN {0 - 1, 1} ELSE Deltas

\* setLoading(true) before the call, setLoading(false) in `finally`: the
\* modal only.
SetsLoading(h) == h = "handleSubmit"

\* handleSaveStock awaiting an adjustment that is not wrapped in try/catch.
CatchesError_SaveStockUncaught(h) == h \in Handlers \ {"handleSaveStock"}

\* try { await productsService.adjustInventory(...) } catch (error) {
\* alert(error.message || ...) }: every handler has it, handleSaveStock
\* through the handleQuickAdjust it awaits.
CatchesError(h) == h \in Handlers

\* locations.find(l => l.is_default) || locations[0], over the active
\* locations getLocations returned; 0 for an empty list.
UiLocation(locs) ==
  LET active == {l \in Locations : locs[l].present /\ locs[l].is_active}
      defaults == {l \in active : locs[l].is_default}
      first(ls) == CHOOSE l \in ls : \A m \in ls : l <= m
  IN IF defaults # {} THEN first(defaults)
     ELSE IF active # {} THEN first(active) ELSE 0

\* The handler runs up to its call of adjustInventory: the early returns,
\* the loading flag, the arguments.  The promise of the call is new.
uiInvoke(c, h, v, d) ==
  /\ ui[c].pc \in {"idle", "settled"}
  /\ ~InFlight(c)
  /\ UiLocation(inventory_locations) # 0
  /\ ~(SkipsZero(h) /\ d = 0)
  /\ d \in CallSiteChanges(h)
  /\ ui' = [ui EXCEPT ![c] =
       [pc |-> "calling", handler |-> h, variant_id |-> v,
        location_id |-> UiLocation(inventory_locations),
        quantity_change |-> d, loading |-> SetsLoading(h),
        alert |-> FALSE, unhandled |-> FALSE]]
  /\ call' = [call EXCEPT ![c] = IdleCall]
  /\ UNCHANGED <<products, inventory_locations, inventory_items,
                 inventory_adjustments, nextAdjId, sync, now, reply,
                 tracking_partners, request, items0>>

\* The call the handler made starts: its select and its stock check.
uiCall(c) ==
  /\ ui[c].pc = "calling"
  /\ call[c].pc = "idle"
  /\ AdjRead(c, ui[c].variant_id, ui[c].location_id, ui[c].quantity_change)

\* The awaited promise has settled and the handler runs to its end: on a
\* rejection the catch block alerts (or, without one, the rejection is
\* unhandled); `finally` clears the loading flag.
uiSettle(c) ==
  /\ ui[c].pc = "calling"
  /\ call[c].pc \in {"ok", "rejected"}
  /\ LET h == ui[c].handler
         thrown == call[c].pc = "rejected"
     IN ui' = [ui EXCEPT
          ![c].pc = "settled",
          ![c].alert = thrown /\ CatchesError(h),
          ![c].unhandled = thrown /\ ~CatchesError(h),
          ![c].loading = IF SetsLoading(h) THEN FALSE ELSE @]
  /\ UNCHANGED <<products, inventory_locations, inventory_items,
                 inventory_adjustments, nextAdjId, call, sync, now, reply,
                 tracking_partners, request, items0>>

NextUI ==
  \/ \E c \in Callers, h \in Handlers, v \in Products, d \in Deltas :
       uiInvoke(c, h, v, d)
  \/ \E c \in Callers : uiCall(c)
  \/ \E c \in Callers : AdjUpsert(c)
  \/ \E c \in Callers : AdjInsert(c)
  \/ \E c \in Callers : uiSettle(c)

SpecUI == Init /\ [][NextUI]_vars

\* ------------------------------------------------- inactive locations

\* UPDATE inventory_locations SET is_active = false WHERE id = l (policy
\* "Authenticated users can manage locations" is FOR ALL).
deactivateLocation(l) ==
  /\ inventory_locations[l].present
  /\ inventory_locations[l].is_active
  /\ inventory_locations' =
       [inventory_locations EXCEPT ![l].is_active = FALSE]
  /\ UNCHANGED <<products, inventory_items, inventory_adjustments,
                 nextAdjId, call, sync>>
  /\ UNCHANGED aux

\* .order('name'): the locations of the model in the order of their ids.
OrderByName(ls) ==
  {q \in [1..Cardinality(ls) -> ls] :
     \A i, j \in 1..Cardinality(ls) : i < j => q[i] < q[j]}

\* ProductsService.getLocations: .eq('is_active', true).order('name')
getLocations ==
  /\ \E q \in OrderByName({l \in PresentLocations :
                              inventory_locations[l].is_active}) :
       reply' = [fn |-> "getLocations", variant_id |-> 0, limit |-> 0,
                 rows |-> q]
  /\ UNCHANGED <<products, inventory_locations, inventory_items,
                 inventory_adjustments, nextAdjId, call, sync, now,
                 tracking_partners, request, ui, items0>>

NextInactive ==
  \/ \E c \in Callers, v \in Products, l \in Locations, d \in Deltas :
       AdjRead(c, v, l, d)
  \/ \E c \in Callers : AdjUpsert(c)
  \/ \E c \in Callers : AdjInsert(c)
  \/ \E l \in Locations : deactivateLocation(l)
  \/ getLocations

SpecInactive == Init /\ [][NextInactive]_vars

\* ------------------------------------------------------ the read models

\* Stock levels: none, and on both sides of the default reorder point.
ReadQtys == {0, 5, 10, 11}
\* Units committed to open orders: none, or more than the stock at hand.
CommittedQtys == {0, 12}

\* A store as the reads may find it: the product in any status, each
\* location active or not, each pair with or without a Quantity Record.
InitReadModels ==
  /\ products \in [Products -> Statuses]
  /\ \E active \in [Locations -> BOOLEAN] :
       inventory_locations =
         [l \in Locations |->
            [present |-> TRUE, is_active |-> active[l],
             is_default |-> (l = 1)]]
  /\ \E have \in SUBSET (Products \X Locations) :
       \E q \in [have -> ReadQtys \X CommittedQtys] :
         inventory_items =
           {[NewItem({}, k[1], k[2], q[k][1]) EXCEPT !.committed = q[k][2]] :
              k \in have}
  /\ inventory_adjustments = {}
  /\ nextAdjId = 1
  /\ call = [c \in Callers |-> IdleCall]
  /\ sync = IdleSync
  /\ now = 0
  /\ reply = NoReply
  /\ tracking_partners = SeedPartners
  /\ request = [c \in Callers |-> IdleRequest]
  /\ ui = [c \in Callers |-> IdleUi]
  /\ items0 = {}

ReadFrame ==
  UNCHANGED <<products, inventory_locations, inventory_items,
              inventory_adjustments, nextAdjId, call, sync, now,
              tracking_partners, request, ui, items0>>

\* The view with a strict comparison.
low_stock_items_Strict(prods, locs, items) ==
  {[product_id |-> p, variant_id |-> ii.variant_id,
    available |-> ii.available, reorder_point |-> ii.reorder_point,
    location_id |-> il] :
     <<p, ii, il>> \in
       {t \in Products \X items \X Locations :
          /\ prods[t[1]] \in Statuses
          /\ t[1] = t[2].variant_id
          /\ locs[t[3]].present
          /\ t[2].location_id = t[3]
          /\ t[2].available < t[2].reorder_point
          /\ prods[t[1]] = "active"
          /\ locs[t[3]].is_active}}

\* CREATE VIEW low_stock_items: products JOIN product_variants JOIN
\* inventory_items JOIN inventory_locations WHERE ii.available <=
\* ii.reorder_point AND p.status = 'active' AND il.is_active = true
low_stock_items(prods, locs, items) ==
  {[product_id |-> p, variant_id |-> ii.variant_id,
    available |-> ii.available, reorder_point |-> ii.reorder_point,
    location_id |-> il] :
     <<p, ii, il>> \in
       {t \in Products \X items \X Locations :
          /\ prods[t[1]] \in Statuses
          /\ t[1] = t[2].variant_id
          /\ locs[t[3]].present
          /\ t[2].location_id = t[3]
          /\ t[2].available <= t[2].reorder_point
          /\ prods[t[1]] = "active"
          /\ locs[t[3]].is_active}}

\* ORDER BY ii.available ASC: every order of the rows the sort allows.
OrderByAvailable(rows) ==
  {q \in [1..Cardinality(rows) -> rows] :
     \A i, j \in 1..Cardinality(rows) :
       i < j => q[i] # q[j] /\ q[i].available <= q[j].available}

\* ProductsService.getLowStockItems: select('*') from the view
getLowStockItems ==
  /\ \E q \in OrderByAvailable(
               low_stock_items(products, inventory_locations,
                               inventory_items)) :
       reply' = [fn |-> "getLowStockItems", variant_id |-> 0, limit |-> 0,
                 rows |-> q]
  /\ ReadFrame

RECURSIVE SumCol(_, _)
\* SUM(ii.<col>) over a set of rows; COALESCE(..., 0) for no row
SumCol(rows, col) ==
  IF rows = {} THEN 0
  ELSE LET r == CHOOSE x \in rows : TRUE
       IN r[col] + SumCol(rows \ {r}, col)

\* CREATE VIEW product_inventory_summary: products JOIN product_variants
\* LEFT JOIN inventory_items ON pv.id = ii.variant_id GROUP BY variant
product_inventory_summary(prods, items) ==
  {LET ii == {r \in items : r.variant_id = p}
   IN [product_id |-> p, variant_id |-> p, product_status |-> prods[p],
       total_available |-> SumCol(ii, "available"),
       total_committed |-> SumCol(ii, "committed"),
       available_to_sell |->
         SumCol(ii, "available") - SumCol(ii, "committed"),
       reorder_point |->
         IF ii = {} THEN {}
         ELSE {CHOOSE n \in {r.reorder_point : r \in ii} :
                 \A r \in ii : n <= r.reorder_point},
       location_count |-> Cardinality({r.location_id : r \in ii})] :
     p \in {x \in Products : prods[x] \in Statuses}}

\* The pages that list the summary.
Pages == {"InventoryManager", "ProductsPage"}

\* A number compared with a column that may be null: `x <= null` compares
\* with 0.
ToNumber(col) == IF col = {} THEN 0 ELSE CHOOSE n \in col : TRUE

\* InventoryManager: p.available_to_sell > 0 && p.available_to_sell <=
\* p.reorder_point; ProductsPage: p.available_to_sell <= p.reorder_point.
IsLowStock(page, p) ==
  IF page = "InventoryManager"
    THEN p.available_to_sell > 0
         /\ p.available_to_sell <= ToNumber(p.reorder_point)
    ELSE p.available_to_sell <= ToNumber(p.reorder_point)

\* .order('product_title'): the products of the model in the order of
\* their ids.
OrderByProduct(rows) ==
  {q \in [1..Cardinality(rows) -> rows] :
     \A i, j \in 1..Cardinality(rows) :
       i < j => q[i].product_id < q[j].product_id}

\* A summary read that also clears the records with no stock.
getInventorySummary_Sweeping ==
  /\ \E q \in OrderByProduct(
               product_inventory_summary(products, inventory_items)) :
       reply' = [fn |-> "getInventorySummary", variant_id |-> 0,
                 limit |-> 0, rows |-> q]
  /\ inventory_items' = {r \in inventory_items : r.available # 0}
  /\ UNCHANGED <<products, inventory_locations, inventory_adjustments,
                 nextAdjId, call, sync, now, tracking_partners, request, ui,
                 items0>>

\* ProductsService.getInventorySummary
getInventorySummary ==
  /\ \E q \in OrderByProduct(
               product_inventory_summary(products, inventory_items)) :
       reply' = [fn |-> "getInventorySummary", variant_id |-> 0,
                 limit |-> 0, rows |-> q]
  /\ ReadFrame

RECURSIVE AvailableToSell(_)
\* v.inventory.reduce((s, i) => s + (i.available - i.committed), 0)
AvailableToSell(inventory) ==
  IF inventory = {} THEN 0
  ELSE LET i == CHOOSE x \in inventory : TRUE
       IN (i.available - i.committed) + AvailableToSell(inventory \ {i})

\* ProductsService.getProductById: null for no product, otherwise the
\* product with the totals over the inventory_items(*) of its variants.
getProductById(p) ==
  /\ reply' =
       [fn |-> "getProductById", variant_id |-> 0, limit |-> 0,
        rows |->
          IF products[p] \notin Statuses THEN <<>>
          ELSE LET inventory == {r \in inventory_items : r.variant_id = p}
               IN <<[product_id |-> p, variant_id |-> p,
                     total_inventory |-> SumCol(inventory, "available"),
                     available_to_sell |-> AvailableToSell(inventory)]>>]
  /\ ReadFrame

\* filterProducts with stockFilter 'low', on the summary the page loaded:
\* the rows the page lists (and counts, and colours) as low stock.
filterProducts(page) ==
  /\ reply.fn = "getInventorySummary"
  /\ reply' = [fn |-> page, variant_id |-> 0, limit |-> 0,
               rows |-> SelectSeq(reply.rows,
                                  LAMBDA p : IsLowStock(page, p))]
  /\ ReadFrame

NextReadModels ==
  \/ getLowStockItems
  \/ getInventorySummary
  \/ \E p \in Products : getProductById(p)
  \/ \E page \in Pages : filterProducts(page)

SpecReadModels == InitReadModels /\ [][NextReadModels]_vars

\* ------------------------------------ the tracking-partners edge function

PresentPartners == {t \in Partners : tracking_partners[t].present}

DefaultPartners == {t \in PresentPartners : tracking_partners[t].is_default}

\* .update({ is_default: false }).neq("id", id)
ClearOtherDefaults(tp, id) ==
  [t \in Partners |->
     IF tp[t].present /\ t # id THEN [tp[t] EXCEPT !.is_default = FALSE]
                                ELSE tp[t]]

\* .update({ ..., is_default: d }).eq("id", id): no row, no change.
UpdatePartner(tp, id, d) ==
  [tp EXCEPT ![id] = IF tp[id].present THEN [tp[id] EXCEPT !.is_default = d]
                                        ELSE tp[id]]

RegistryFrame ==
  UNCHANGED <<products, inventory_locations, inventory_items,
              inventory_adjustments, nextAdjId, call, sync, now, reply, ui,
              items0>>

\* action "setDefault", first statement: the other rows lose the flag.
setDefaultClear(c, id) ==
  /\ request[c].pc = "idle"
  /\ tracking_partners' = ClearOtherDefaults(tracking_partners, id)
  /\ request' = [request EXCEPT ![c] = [pc |-> "setDefault", id |-> id]]
  /\ RegistryFrame

\* action "setDefault", second statement: the named row gets the flag.
setDefaultSet(c) ==
  /\ request[c].pc = "setDefault"
  /\ tracking_partners' =
       UpdatePartner(tracking_partners, request[c].id, TRUE)
  /\ request' = [request EXCEPT ![c] = IdleRequest]
  /\ RegistryFrame

\* action "save" with partner.is_default set, first statement: the payload
\* carries the id of a row the client has listed (an update), or no id (an
\* insert, here of a partner the table does not hold): the other rows lose
\* the flag.
saveClear(c, id) ==
  /\ request[c].pc = "idle"
  /\ tracking_partners' = ClearOtherDefaults(tracking_partners, id)
  /\ request' = [request EXCEPT ![c] =
       [pc |-> IF tracking_partners[id].present THEN "saveUpdate"
                                                ELSE "saveInsert",
        id |-> id]]
  /\ RegistryFrame

\* action "save", the write of a default partner: update by id, or insert.
saveWrite(c) ==
  /\ request[c].pc \in {"saveUpdate", "saveInsert"}
  /\ tracking_partners' =
       IF request[c].pc = "saveUpdate"
         THEN UpdatePartner(tracking_partners, request[c].id, TRUE)
         ELSE [tracking_partners EXCEPT ![request[c].id] =
                 [present |-> TRUE, is_default |-> TRUE]]
  /\ request' = [request EXCEPT ![c] = IdleRequest]
  /\ RegistryFrame

\* action "save" with partner.is_default false: the write is the only
\* statement that touches is_default.
savePlain(c, id) ==
  /\ request[c].pc = "idle"
  /\ tracking_partners' =
       IF tracking_partners[id].present
         THEN UpdatePartner(tracking_partners, id, FALSE)
         ELSE [tracking_partners EXCEPT ![id] =
                 [present |-> TRUE, is_default |-> FALSE]]
  /\ UNCHANGED request
  /\ RegistryFrame

\* action "delete": .delete().eq("id", id)
deletePartner(c, id) ==
  /\ request[c].pc = "idle"
  /\ tracking_partners[id].present
  /\ tracking_partners' =
       [tracking_partners EXCEPT ![id] =
          [present |-> FALSE, is_default |-> FALSE]]
  /\ UNCHANGED request
  /\ RegistryFrame

NextRegistry ==
  \/ \E c \in Callers, id \in Partners : setDefaultClear(c, id)
  \/ \E c \in Callers : setDefaultSet(c)
  \/ \E c \in Callers, id \in Partners : saveClear(c, id)
  \/ \E c \in Callers : saveWrite(c)
  \/ \E c \in Callers, id \in Partners : savePlain(c, id)
  \/ \E c \in Callers, id \in Partners : deletePartner(c, id)

SpecRegistry == Init /\ [][NextRegistry]_vars

\* ------------------------------------------------------------- the state

\* ------------------------------------------------ setting stock to N

\* The handlers that take a target stock: handleStockChange(product,
\* newStock), handleSaveStock (inline edit) and the modal in 'set' mode.
SetStockHandlers == {"handleStockChange", "handleSaveStock", "handleSubmit"}

\* loadData: the page replaces its `products` by a new read of the summary;
\* the handlers call it only after their adjustment has settled.
loadData(c) ==
  /\ ui[c].pc # "calling"
  /\ getInventorySummary

\* const change = newStock - product.total_available, with the product row
\* of the summary the page loaded last; then the handler's call.  The
\* modal's submit button is disabled for quantity <= 0.
setStock(c, h, newStock) ==
  /\ reply.fn = "getInventorySummary"
  /\ Len(reply.rows) > 0
  /\ h = "handleSubmit" => newStock > 0
  /\ uiInvoke(c, h, reply.rows[1].variant_id,
              newStock - reply.rows[1].total_available)

\* Another client adjusts the variant at some location.
otherAdjust(c, l, d) ==
  /\ call[c].pc = "idle"
  /\ AdjRead(c, 1, l, d)

NextSetStock ==
  \/ loadData("c1")
  \/ \E h \in SetStockHandlers, newStock \in 0..MaxQty :
       setStock("c1", h, newStock)
  \/ uiCall("c1")
  \/ uiSettle("c1")
  \/ \E l \in Locations, d \in Deltas : otherAdjust("c2", l, d)
  \/ \E c \in Callers : AdjUpsert(c)
  \/ \E c \in Callers : AdjInsert(c)

SpecSetStock == InitDistinctKeys /\ [][NextSetStock]_vars

\* --------------------------------------- records with committed stock

\* As InitDistinctKeys, with units committed to open orders on some of the
\* records.
InitFrame ==
  /\ products = [p \in Products |-> "active"]
  /\ inventory_locations =
       [l \in Locations |->
          [present |-> TRUE, is_active |-> TRUE, is_default |-> (l = 1)]]
  /\ \E have \in SUBSET (Products \X Locations) :
       \E q \in [have -> (0..MaxQty) \X CommittedQtys] :
         inventory_items =
           {[NewItem({}, k[1], k[2], q[k][1]) EXCEPT !.committed = q[k][2]] :
              k \in have}
  /\ items0 = inventory_items
  /\ inventory_adjustments = {}
  /\ nextAdjId = 1
  /\ call = [c \in Callers |-> IdleCall]
  /\ sync = IdleSync
  /\ now = 0
  /\ reply = NoReply
  /\ tracking_partners = SeedPartners
  /\ request = [c \in Callers |-> IdleRequest]
  /\ ui = [c \in Callers |-> IdleUi]

SpecFrame == InitFrame /\ [][NextDistinctKeys]_vars

\* The shape of the state: the columns of the tables the model keeps, and
\* the locals of the clients.
TypeOK ==
  /\ products \in [Products -> Statuses \cup {"deleted"}]
  /\ inventory_locations \in
       [Locations ->
          [present : BOOLEAN, is_active : BOOLEAN, is_default : BOOLEAN]]
  /\ \A r \in inventory_items :
       /\ r.id \in Products \X Locations \X {1}
       /\ r.variant_id \in Products
       /\ r.location_id \in Locations
       /\ r.available \in (0..MaxQty) \cup ReadQtys
       /\ r.committed \in CommittedQtys
       /\ {r.damaged, r.in_transit, r.reserved} = {0}
       /\ r.reorder_point = ReorderPoint
  /\ \A e \in inventory_adjustments :
       /\ e.id \in 1..MaxLedger
       /\ e.variant_id \in Products
       /\ e.location_id \in Locations
       /\ e.adjustment_type \in AdjustmentTypes
       /\ e.quantity_change \in Deltas
       /\ e.quantity_before \in 0..MaxQty
       /\ e.quantity_after \in 0..MaxQty
       /\ e.created_at \in 0..MaxClock
  /\ nextAdjId \in 1..(MaxLedger + 1)
  /\ \A c \in Callers :
       /\ call[c].pc \in {"idle", "upsert", "insert", "ok", "rejected"}
       /\ call[c].quantityAfter =
            call[c].quantityBefore + call[c].quantity_change
  /\ sync.pc \in {"idle", "selectExisting", "write", "upsert"}
  /\ sync.inventoryQuantity \in PlatformQtys
  /\ now \in 0..MaxClock
  /\ reply.fn \in {"none", "getInventoryAdjustments", "getLowStockItems",
                    "getInventorySummary", "getProductById", "getLocations"}
                   \cup Pages
  /\ tracking_partners \in
       [Partners -> [present : BOOLEAN, is_default : BOOLEAN]]
  /\ \A c \in Callers :
       /\ request[c].pc \in
            {"idle", "setDefault", "saveUpdate", "saveInsert"}
       /\ ui[c].pc \in {"idle", "calling", "settled"}
       /\ ui[c].handler \in Handlers \cup {"none"}
  /\ \A r \in items0 :
       /\ r.id \in Products \X Locations \X {1}
       /\ r.available \in 0..MaxQty
       /\ r.committed \in CommittedQtys

\* ---------------------------------------------------------------- claims

Quantities(r) ==
  {r.available, r.committed, r.damaged, r.in_transit, r.reserved}

EntriesOf(adjs, v, l) ==
  {e \in adjs : e.variant_id = v /\ e.location_id = l}

\* The step of caller c that runs the select and the stock check.
ReadStep(c) == ~InFlight(c) /\ call'[c] # call[c]
\* The step of caller c that runs the upsert.
UpsertStep(c) == call[c].pc = "upsert" /\ call'[c].pc = "insert"
\* The step of caller c that runs the ledger insert and resolves the promise.
ReturnStep(c) == call[c].pc = "insert" /\ call'[c].pc = "ok"

\* C1: in every reachable state every Quantity Record has available,
\* committed, damaged, in_transit and reserved >= 0.
C1_NonNegative ==
  \A r \in inventory_items : \A q \in Quantities(r) : q >= 0

\* An adjustment was rejected, another was accepted, and a record at the
\* default location was written by the product sync (no ledger row names it).
C1_Witness ==
  /\ \E c \in Callers : call[c].pc = "rejected"
  /\ \E c \in Callers : call[c].pc = "ok"
  /\ \E r \in inventory_items :
       EntriesOf(inventory_adjustments, r.variant_id, r.location_id) = {}

\* C2: every call that reports success has appended exactly one ledger row,
\* the row of that call, with quantity_after - quantity_before =
\* quantity_change.
C2_LedgerCompleteness ==
  [][\A c \in Callers :
       ReturnStep(c) =>
         \E e \in inventory_adjustments' :
           /\ e \notin inventory_adjustments
           /\ inventory_adjustments' = inventory_adjustments \cup {e}
           /\ e.variant_id = call[c].variant_id
           /\ e.location_id = call[c].location_id
           /\ e.quantity_change = call[c].quantity_change
           /\ e.quantity_after - e.quantity_before = e.quantity_change]_vars

\* C3: a call whose delta would make available negative is rejected and
\* changes neither the Quantity Records nor the ledger.
C3_RejectedUnchanged ==
  [][\A c \in Callers :
       ReadStep(c) =>
         LET a == QuantityBefore(inventory_items, call'[c].variant_id,
                                 call'[c].location_id)
         IN /\ (a + call'[c].quantity_change < 0) <=>
                 (call'[c].pc = "rejected")
            /\ call'[c].pc = "rejected" =>
                 /\ inventory_items' = inventory_items
                 /\ inventory_adjustments' = inventory_adjustments]_vars

\* A call on an existing record was rejected and the record still holds the
\* quantity the call read.
C3_Witness ==
  \E c \in Callers :
    /\ call[c].pc = "rejected"
    /\ call[c].found
    /\ \E r \in RowsOf(inventory_items, call[c].variant_id,
                       call[c].location_id) :
         r.available = call[c].quantityBefore

\* C4: two calls that take the whole stock of one record (available = a > 0,
\* delta = -a) are never both past the stock check on the same read of a.
C4_ExactlyOneSucceeds ==
  \A c1, c2 \in Callers :
    (/\ c1 # c2
     /\ InFlight(c1)
     /\ InFlight(c2)
     /\ call[c1].variant_id = call[c2].variant_id
     /\ call[c1].location_id = call[c2].location_id
     /\ call[c1].found
     /\ call[c2].found
     /\ call[c1].quantityBefore > 0)
    => ~(/\ call[c1].quantityBefore = call[c2].quantityBefore
         /\ call[c1].quantity_change = 0 - call[c1].quantityBefore
         /\ call[c2].quantity_change = 0 - call[c2].quantityBefore)

\* C5: the write of a call with delta d on a record that exists with
\* available = a leaves the record with available = a + d, and the ledger row
\* of the call has quantity_before = a and quantity_after = a + d.
C5_ExistingRecordUpdated ==
  [][\A c \in Callers :
       LET v == call[c].variant_id
           l == call[c].location_id
       IN /\ (/\ UpsertStep(c)
              /\ call[c].found
              /\ CurrentItem(inventory_items, v, l) # {}
              /\ QuantityBefore(inventory_items, v, l) = call[c].quantityBefore)
             => /\ CurrentItem(inventory_items', v, l) # {}
                /\ QuantityBefore(inventory_items', v, l) =
                     call[c].quantityBefore + call[c].quantity_change
          /\ (ReturnStep(c) /\ call[c].found /\ FKOk(v, l))
             => \E e \in inventory_adjustments' \ inventory_adjustments :
                  /\ e.quantity_before = call[c].quantityBefore
                  /\ e.quantity_after =
                       call[c].quantityBefore + call[c].quantity_change]_vars

\* The values of available the records of a pair show: none when the pair
\* has no record.
AvailableOf(items, v, l) == {r.available : r \in RowsOf(items, v, l)}

\* C6: every step that gives a Quantity Record a new value of available (a
\* new record included) is the write of an adjustInventory call, which pairs
\* it with a ledger row.
C6_SoleMutator ==
  [][(\E r \in inventory_items' :
        AvailableOf(inventory_items, r.variant_id, r.location_id)
          # {r.available})
     => \E c \in Callers : UpsertStep(c)]_vars

\* C7: a ledger row, once appended, is present unchanged in every later state.
C7_AppendOnly ==
  [][inventory_adjustments \subseteq inventory_adjustments']_vars

\* C8: at most one Quantity Record per (variant, location).
C8_OneRecordPerKey ==
  \A r1, r2 \in inventory_items :
    (r1.variant_id = r2.variant_id /\ r1.location_id = r2.location_id)
      => r1 = r2

\* Two calls both read "no record" for the same pair, both have run their
\* upsert, and the pair has a record.
C8_Witness ==
  \E c1, c2 \in Callers :
    /\ c1 # c2
    /\ call[c1].pc \in {"insert", "ok"}
    /\ call[c2].pc \in {"insert", "ok"}
    /\ ~call[c1].found
    /\ ~call[c2].found
    /\ call[c1].variant_id = call[c2].variant_id
    /\ call[c1].location_id = call[c2].location_id
    /\ RowsOf(inventory_items, call[c1].variant_id, call[c1].location_id)
         # {}

\* C9: a call with delta d >= 0 on an existing variant and location whose
\* pair has no Quantity Record is not rejected; its write leaves exactly one
\* record for the pair, with available = d and the other quantities 0; its
\* ledger row has quantity_before = 0 and quantity_after = d.
C9_LazyCreate ==
  [][\A c \in Callers :
       /\ (/\ ReadStep(c)
           /\ RowsOf(inventory_items, call'[c].variant_id,
                     call'[c].location_id) = {}
           /\ call'[c].quantity_change >= 0)
          => call'[c].pc = "upsert"
       /\ LET v == call[c].variant_id
              l == call[c].location_id
              d == call[c].quantity_change
          IN /\ (/\ UpsertStep(c)
                 /\ FKOk(v, l)
                 /\ RowsOf(inventory_items, v, l) = {})
                => /\ Cardinality(RowsOf(inventory_items', v, l)) = 1
                   /\ \A r \in RowsOf(inventory_items', v, l) :
                        /\ r.available = d
                        /\ r.committed = 0
                        /\ r.damaged = 0
                        /\ r.in_transit = 0
                        /\ r.reserved = 0
             /\ (ReturnStep(c) /\ FKOk(v, l) /\ ~call[c].found)
                => \E e \in inventory_adjustments' \ inventory_adjustments :
                     /\ e.variant_id = v
                     /\ e.location_id = l
                     /\ e.quantity_before = 0
                     /\ e.quantity_after = d
                     /\ e.quantity_change = d]_vars

\* A call that found no record has returned with delta +1; the pair has its
\* record with available = 1 and the ledger holds the row {0, 1, +1}.
C9_Witness ==
  \E c \in Callers :
    /\ call[c].pc = "ok"
    /\ ~call[c].found
    /\ call[c].quantity_change = 1
    /\ \E r \in RowsOf(inventory_items, call[c].variant_id,
                       call[c].location_id) : r.available = 1
    /\ \E e \in EntriesOf(inventory_adjustments, call[c].variant_id,
                          call[c].location_id) :
         /\ e.quantity_before = 0
         /\ e.quantity_after = 1
         /\ e.quantity_change = 1

\* The ledger row appended last for a pair.
LatestEntry(adjs, v, l) ==
  CHOOSE e \in EntriesOf(adjs, v, l) :
    \A f \in EntriesOf(adjs, v, l) : f.id <= e.id

\* C10: when no adjustment is in flight, every record whose pair has ledger
\* rows shows the quantity_after of the row appended last for the pair.
C10_RecordIsLatestLedgerValue ==
  (\A c \in Callers : ~InFlight(c)) =>
    \A r \in inventory_items :
      EntriesOf(inventory_adjustments, r.variant_id, r.location_id) # {} =>
        r.available =
          LatestEntry(inventory_adjustments, r.variant_id,
                      r.location_id).quantity_after

\* C11: a call returns successfully only if its record write and its ledger
\* append both took effect: the write step leaves the pair's record with the
\* computed quantity_after, and the returning step adds the call's ledger
\* row; a write the store refused is not followed by a successful return.
C11_SuccessMeansBothWritten ==
  [][\A c \in Callers :
       LET v == call[c].variant_id
           l == call[c].location_id
       IN /\ UpsertStep(c) =>
               \E r \in RowsOf(inventory_items', v, l) :
                 r.available = call[c].quantityAfter
          /\ ReturnStep(c) =>
               \E e \in inventory_adjustments' \ inventory_adjustments :
                 /\ e.variant_id = v
                 /\ e.location_id = l
                 /\ e.quantity_after = call[c].quantityAfter]_vars

\* C12: the sequence getInventoryAdjustments returns is newest first: of
\* two rows the one created later comes first, and of two rows with the
\* same creation timestamp the one inserted later comes first; so no row
\* appears twice and the order is the same on every call.
C12_NewestFirstByInsertion ==
  reply.fn = "getInventoryAdjustments" =>
    \A i, j \in 1..Len(reply.rows) :
      i < j =>
        \/ reply.rows[i].created_at > reply.rows[j].created_at
        \/ /\ reply.rows[i].created_at = reply.rows[j].created_at
           /\ reply.rows[i].id > reply.rows[j].id

\* C13: whenever a location exists, exactly one existing location has
\* is_default = true: never two or more, never none.
C13_ExactlyOneDefault ==
  PresentLocations # {} =>
    Cardinality({l \in PresentLocations :
                   inventory_locations[l].is_default}) = 1

\* C14: setDefault is atomic: no statement of a setDefault request takes a
\* table with exactly one default to a table a reader sees with no default
\* or with several.
C14_SetDefaultAtomic ==
  [][\A c \in Callers :
       (/\ request'[c] # request[c]
        /\ "setDefault" \in {request[c].pc, request'[c].pc}
        /\ Cardinality(DefaultPartners) = 1)
       => Cardinality(DefaultPartners') = 1]_vars

\* The reply as a set of rows.
RowsIn(q) == {q[i] : i \in 1..Len(q)}

\* C15: getLowStockItems returns exactly the Quantity Records with
\* available <= reorder_point whose location is active and whose product
\* has status 'active', each once, in ascending order of available.
C15_LowStockExact ==
  reply.fn = "getLowStockItems" =>
    /\ {<<x.variant_id, x.location_id, x.available>> :
          x \in RowsIn(reply.rows)}
         = {<<r.variant_id, r.location_id, r.available>> :
              r \in {i \in inventory_items :
                       /\ i.available <= i.reorder_point
                       /\ inventory_locations[i.location_id].is_active
                       /\ products[i.variant_id] = "active"}}
    /\ \A i, j \in 1..Len(reply.rows) :
         i < j =>
           /\ reply.rows[i].available <= reply.rows[j].available
           /\ <<reply.rows[i].variant_id, reply.rows[i].location_id>>
                # <<reply.rows[j].variant_id, reply.rows[j].location_id>>

\* The list holds a record below its reorder point before a record exactly
\* at its reorder point.
C15_Witness ==
  /\ reply.fn = "getLowStockItems"
  /\ Len(reply.rows) = 2
  /\ reply.rows[1].available < reply.rows[2].available
  /\ reply.rows[2].available = reply.rows[2].reorder_point

\* C16: the available_to_sell a read reports for a variant is the sum of
\* (available - committed) over the variant's Quantity Records at active
\* locations, inactive locations left out, negative when more is committed
\* than available.
C16_ActiveLocationsOnly ==
  reply.fn \in {"getInventorySummary", "getProductById"} =>
    \A x \in RowsIn(reply.rows) :
      x.available_to_sell =
        AvailableToSell({r \in inventory_items :
                           /\ r.variant_id = x.variant_id
                           /\ inventory_locations[r.location_id].is_active})

\* C17: a call that names a variant or a location the store does not hold
\* fails: it does not go on to its writes (and so creates no record and no
\* ledger row, and reports no success).
C17_NotFoundRejected ==
  [][\A c \in Callers :
       (ReadStep(c) /\ ~FKOk(call'[c].variant_id, call'[c].location_id))
         => call'[c].pc # "upsert"]_vars

\* C18: a call on a location whose is_active is false fails, whether the
\* location was deactivated before or after the caller listed the active
\* locations: it does not go on to its writes.
C18_InactiveRejected ==
  [][\A c \in Callers :
       (/\ ReadStep(c)
        /\ call'[c].location_id \in PresentLocations
        /\ ~inventory_locations[call'[c].location_id].is_active)
         => call'[c].pc # "upsert"]_vars

\* C19: when the adjustment a UI handler made fails for insufficient
\* inventory, no step of the failing call or of the handler changes a
\* Quantity Record or the ledger, and the handler ends having alerted the
\* user, with its loading flag cleared and no unhandled rejection.
C19_FailureHandled ==
  [][\A c \in Callers :
       (/\ ui[c].pc = "calling"
        /\ call'[c].pc = "rejected"
        /\ <<ui[c], call[c]>> # <<ui'[c], call'[c]>>)
       => /\ inventory_items' = inventory_items
          /\ inventory_adjustments' = inventory_adjustments
          /\ ui'[c].pc = "settled" =>
               /\ ui'[c].alert
               /\ ~ui'[c].loading
               /\ ~ui'[c].unhandled]_vars

\* The modal and the inline stock edit have both ended on a rejected
\* adjustment, each with its alert shown.
C19_Witness ==
  \E c1, c2 \in Callers :
    /\ ui[c1].pc = "settled"
    /\ ui[c1].handler = "handleSubmit"
    /\ call[c1].pc = "rejected"
    /\ ui[c1].alert
    /\ ui[c2].pc = "settled"
    /\ ui[c2].handler = "handleSaveStock"
    /\ call[c2].pc = "rejected"
    /\ ui[c2].alert

\* A ledger row without its id and timestamp.
Content(e) ==
  [variant_id |-> e.variant_id, location_id |-> e.location_id,
   quantity_change |-> e.quantity_change,
   quantity_before |-> e.quantity_before,
   quantity_after |-> e.quantity_after]

\* C20: calls on different (variant, location) pairs are independent: when
\* the calls have ended, however their steps interleaved, each pair holds
\* the records and the ledger contents its call leaves when run alone on
\* the initial store; the other call has no effect on them.
C20_DistinctKeysIndependent ==
  (\A c \in Callers : call[c].pc \in {"ok", "rejected"}) =>
    \A c \in Callers :
      LET v == KeyOf(c)[1]
          l == KeyOf(c)[2]
          d == call[c].quantity_change
      IN /\ {r \in inventory_items :
               r.variant_id = v /\ r.location_id = l}
              = {r \in AdjustedAlone(items0, v, l, d) :
                   r.variant_id = v /\ r.location_id = l}
         /\ {Content(e) : e \in {x \in inventory_adjustments :
                                    x.variant_id = v /\ x.location_id = l}}
              = AppendedAlone(items0, v, l, d)

\* Both calls have returned: the call on (1, 1) created its record with one
\* unit, the call on (1, 2) found a record, and each appended its ledger row.
C20_Witness ==
  /\ call["c1"].pc = "ok"
  /\ call["c2"].pc = "ok"
  /\ ~call["c1"].found
  /\ call["c1"].quantity_change = 1
  /\ call["c2"].found
  /\ Cardinality(inventory_adjustments) = 2
  /\ \E r \in inventory_items : r.location_id = 1 /\ r.available = 1

\* The write step of caller c, whatever position it leads to.
WriteStep(c) == call[c].pc = "upsert" /\ call'[c] # call[c]

\* Another client has written the pair's record since caller c read it: a
\* record has appeared, gone, or shows another quantity.
Contended(c) ==
  LET v == call[c].variant_id
      l == call[c].location_id
  IN \/ call[c].found # (CurrentItem(inventory_items, v, l) # {})
     \/ QuantityBefore(inventory_items, v, l) # call[c].quantityBefore

\* C21: a call whose write meets contention on its record (the record is no
\* longer what the call read) retries or fails with a conflict: it does not
\* carry on to its ledger insert as if the write had gone through.
C21_ContentionRetriedOrSurfaced ==
  [][\A c \in Callers :
       (/\ WriteStep(c)
        /\ FKOk(call[c].variant_id, call[c].location_id)
        /\ Contended(c))
       => call'[c].pc # "insert"]_vars

RECURSIVE SumOfChanges(_)
\* The sum of quantity_change over the calls of the callers cs.
SumOfChanges(cs) ==
  IF cs = {} THEN 0
  ELSE LET c == CHOOSE x \in cs : TRUE
       IN call[c].quantity_change + SumOfChanges(cs \ {c})

\* C23: when the concurrent calls on one pair have all returned, the
\* pair's available is its initial value plus the sum of quantity_change
\* over the calls that reported success.
C23_NoLostUpdate ==
  (\A c \in Callers : call[c].pc \in {"ok", "rejected"}) =>
    QuantityBefore(inventory_items, 1, 1) =
      QuantityBefore(items0, 1, 1)
        + SumOfChanges({c \in Callers : call[c].pc = "ok"})

\* C24: the record write and the ledger append of one call are a single
\* unit: a step of a call past its stock check writes the pair's Quantity
\* Record exactly when it appends a ledger row of the pair, so no state
\* shows one of the two without the other.
C24_SingleUnit ==
  [][\A c \in Callers :
       LET v == call[c].variant_id
           l == call[c].location_id
       IN (InFlight(c) /\ call'[c] # call[c])
          => ((RowsOf(inventory_items', v, l) # RowsOf(inventory_items, v, l))
              <=> (EntriesOf(inventory_adjustments', v, l)
                     # EntriesOf(inventory_adjustments, v, l)))]_vars

\* C25: a step of a call changes nothing but available of the call's own
\* Quantity Record: every record is still there with its committed,
\* damaged, in_transit, reserved and reorder_point, the records of other
\* pairs are as they were, a record that appears is the call's pair's, and
\* products and locations are unchanged.
C25_OnlyAvailableChanges ==
  [][\A c \in Callers :
       call'[c] # call[c] =>
         /\ products' = products
         /\ inventory_locations' = inventory_locations
         /\ \A r \in inventory_items :
              \E r2 \in inventory_items' :
                /\ r2 = [r EXCEPT !.available = r2.available]
                /\ (<<r.variant_id, r.location_id>>
                      # <<call'[c].variant_id, call'[c].location_id>>)
                   => r2 = r
         /\ \A r2 \in inventory_items' \ inventory_items :
              /\ r2.variant_id = call'[c].variant_id
              /\ r2.location_id = call'[c].location_id]_vars

\* A call on a record with units committed has returned successfully and
\* the record still has them.
C25_Witness ==
  \E c \in Callers :
    /\ call[c].pc = "ok"
    /\ call[c].found
    /\ \E r \in RowsOf(inventory_items, call[c].variant_id,
                       call[c].location_id) : r.committed > 0

\* C26: every ledger entry has a non-zero quantity_change and an
\* adjustment_type of the enumeration, whatever the screens request.
C26_NoZeroEntry ==
  \A e \in inventory_adjustments :
    /\ e.quantity_change # 0
    /\ e.adjustment_type \in AdjustmentTypes

C28_LowStockFlagExact ==
  [][(reply.fn = "getInventorySummary" /\ reply'.fn = "InventoryManager")
       => \A i \in 1..Len(reply.rows) :
            reply.rows[i].reorder_point # {}
            => ((\E j \in 1..Len(reply'.rows) :
                   reply'.rows[j] = reply.rows[i])
                <=> (reply.rows[i].available_to_sell
                       <= ToNumber(reply.rows[i].reorder_point)))]_vars

\* C29: for every pair, each ledger entry's quantity_before is the
\* quantity_after of the entry appended immediately before it for the pair.
C29_ChainContinuity ==
  \A e, f \in inventory_adjustments :
    (/\ e.variant_id = f.variant_id
     /\ e.location_id = f.location_id
     /\ e.id < f.id
     /\ ~\E g \in EntriesOf(inventory_adjustments, e.variant_id,
                             e.location_id) : e.id < g.id /\ g.id < f.id)
    => f.quantity_before = e.quantity_after

\* C30: when the call of a set-stock handler returns successfully, the
\* variant's available summed over its locations is the target N, which is
\* the loaded total plus the change the handler passed.
C30_SetStockReachesN ==
  [][(/\ ReturnStep("c1")
      /\ ui["c1"].pc = "calling"
      /\ ui["c1"].handler \in SetStockHandlers)
       => SumCol({r \in inventory_items' :
                    r.variant_id = ui["c1"].variant_id}, "available")
            = reply.rows[1].total_available + ui["c1"].quantity_change]_vars

====
